---- MODULE Spec2Model ----
(***************************************************************************)
(* The search views of ahmia (src/ahmia/search/views.py): the result view  *)
(* TorResultsView.get with its pipeline log_stats -> get_queryset          *)
(* (format_hits) -> local_page_pop / sort_hits -> filter_hits ->           *)
(* get_context_data, and the click handler onion_redirect.                 *)
(*                                                                         *)
(* Conventions.  A Python value that may be an int, a str or None is a     *)
(* record [t, i, s].  A text is a sequence of one-character strings.  A    *)
(* float is an exact rational [n, d] (d > 0, lowest terms): rounding of    *)
(* IEEE doubles is not modelled.  A function that may raise returns        *)
(* [err, val] with err = "none" when it returns normally.  A site (domain) *)
(* is the index of its bucket in the index's response: the terms           *)
(* aggregation yields one bucket per domain.                               *)
(***************************************************************************)
EXTENDS Integers, Sequences, FiniteSets, TLC

VARIABLES
    pc,               \* position of the request handler
    GET,              \* request.GET: parameter name -> value, present keys only
    kwargs,           \* the kwargs dict of TorResultsView.get
    raw,              \* the response of the text index to this query
    sink_ok,          \* whether the query/click logging sink accepts a write
    pagepop_db,       \* PagePopScore table: [down, score]
    pagepop_handler,  \* outcome of PagePopHandler on the hits: [down, score]
    object_list,      \* self.object_list
    local_pp_scores,  \* local variable of get(): domain -> local score
    calls,            \* calls made to the collaborators
    context,          \* the context handed to the template
    response,         \* what the handler returned
    error             \* the exception that left the handler, "none" if none

vars == <<pc, GET, kwargs, raw, sink_ok, pagepop_db, pagepop_handler,
          object_list, local_pp_scores, calls, context, response, error>>

(* ------------------------------ bounds --------------------------------- *)

MaxHits == 3

MaxPage == 3

(* ------------------------- program constants --------------------------- *)

RESULTS_PER_PAGE == 100

SecondsPerDay == 86400

Now == 20 * SecondsPerDay

(* --------------------------- Python values ----------------------------- *)

PyInt(n) == [t |-> "int", i |-> n, s |-> <<>>]

PyStr(x) == [t |-> "str", i |-> 0, s |-> x]

PyNone == [t |-> "NoneType", i |-> 0, s |-> <<>>]

Ok(v) == [err |-> "none", val |-> v]

Raise(e, v) == [err |-> e, val |-> v]

\* QueryDict.get(key, default)
QueryGet(G, key, default) ==
    IF key \in DOMAIN G THEN PyStr(G[key]) ELSE default

Digits == <<"0", "1", "2", "3", "4", "5", "6", "7", "8", "9">>

IsDigit(c) == \E k \in 1..10 : Digits[k] = c

DigitVal(c) == (CHOOSE k \in 1..10 : Digits[k] = c) - 1

AllDigits(s) == \A k \in 1..Len(s) : IsDigit(s[k])

RECURSIVE DigitsVal(_)
DigitsVal(s) ==
    IF Len(s) = 0 THEN 0
    ELSE 10 * DigitsVal(SubSeq(s, 1, Len(s) - 1)) + DigitVal(s[Len(s)])

RECURSIVE Pow10(_)
Pow10(k) == IF k = 0 THEN 1 ELSE 10 * Pow10(k - 1)

HasSign(s) == Len(s) > 0 /\ s[1] \in {"-", "+"}

Unsigned(s) == IF HasSign(s) THEN Tail(s) ELSE s

SignOf(s) == IF Len(s) > 0 /\ s[1] = "-" THEN -1 ELSE 1

\* int(v): TypeError on None, ValueError on a text that is no integer
PyIntOf(v) ==
    IF v.t = "int" THEN Ok(v.i)
    ELSE IF v.t = "NoneType" THEN Raise("TypeError", 0)
    ELSE IF Len(Unsigned(v.s)) > 0 /\ AllDigits(Unsigned(v.s))
         THEN Ok(SignOf(v.s) * DigitsVal(Unsigned(v.s)))
         ELSE Raise("ValueError", 0)

(* ----------------------------- rationals ------------------------------- *)

Abs(x) == IF x < 0 THEN -x ELSE x

RECURSIVE GCD(_, _)
GCD(a, b) == IF b = 0 THEN a ELSE GCD(b, a % b)

Rat(n, d) ==
    LET g == GCD(Abs(n), Abs(d))
        sg == IF d < 0 THEN -1 ELSE 1
    IN [n |-> (sg * n) \div g, d |-> (sg * d) \div g]

RInt(k) == [n |-> k, d |-> 1]

RAdd(a, b) == Rat(a.n * b.d + b.n * a.d, a.d * b.d)

RSub(a, b) == Rat(a.n * b.d - b.n * a.d, a.d * b.d)

RMul(a, b) == Rat(a.n * b.n, a.d * b.d)

RDiv(a, b) == Rat(a.n * b.d, a.d * b.n)

RLeq(a, b) == a.n * b.d <= b.n * a.d

RLess(a, b) == a.n * b.d < b.n * a.d

\* float(v) for an int or a decimal text "i", "i.f", ".f", "i." with a sign
PyFloatOf(v) ==
    IF v.t = "int" THEN Ok(RInt(v.i))
    ELSE IF v.t = "NoneType" THEN Raise("TypeError", RInt(0))
    ELSE
      LET u == Unsigned(v.s)
          dots == {k \in 1..Len(u) : u[k] = "."}
      IN IF dots = {}
         THEN IF Len(u) > 0 /\ AllDigits(u)
              THEN Ok(Rat(SignOf(v.s) * DigitsVal(u), 1))
              ELSE Raise("ValueError", RInt(0))
         ELSE IF Cardinality(dots) = 1
         THEN LET p == CHOOSE k \in dots : TRUE
                  ip == SubSeq(u, 1, p - 1)
                  fp == SubSeq(u, p + 1, Len(u))
              IN IF AllDigits(ip) /\ AllDigits(fp) /\ Len(ip) + Len(fp) > 0
                 THEN Ok(Rat(SignOf(v.s) * DigitsVal(ip \o fp), Pow10(Len(fp))))
                 ELSE Raise("ValueError", RInt(0))
         ELSE Raise("ValueError", RInt(0))

(* --------------------------- the text index ---------------------------- *)

\* datetime.strptime(text, '%Y-%m-%dT%H:%M:%S'): the seconds the text names
strptime(u) ==
    IF u.fmt = "iso" THEN Ok(u.secs) ELSE Raise("ValueError", 0)

\* the body of the loop of format_hits for one bucket
format_hit(b) ==
    IF b.updated_on.fmt = "missing" THEN Raise("KeyError", <<>>)
    ELSE LET ts == strptime(b.updated_on)
         IN IF ts.err # "none" THEN Raise(ts.err, <<>>)
            ELSE Ok(<<[domain |-> b.domain,
                       score |-> RMul(RInt(b.sort[2]), RInt(b.sort[1])),
                       updated_on |-> ts.val]>>)

\* the loop of format_hits: the first bucket that raises ends it
RECURSIVE format_buckets(_)
format_buckets(bs) ==
    IF Len(bs) = 0 THEN Ok(<<>>)
    ELSE LET h == format_hit(Head(bs))
         IN IF h.err # "none" THEN h
            ELSE LET rest == format_buckets(Tail(bs))
                 IN IF rest.err # "none" THEN rest
                    ELSE Ok(h.val \o rest.val)

NoSuggest == <<>>

NoObjectList == [total |-> -1, hits |-> <<>>, suggest |-> NoSuggest]

\* TorResultsView.format_hits: the value of self.object_list, or the exception
format_hits(r) ==
    LET suggest == IF Len(r.options) > 0 THEN r.options[1] ELSE NoSuggest
    IN IF ~r.has_aggregations THEN Raise("KeyError", NoObjectList)
       ELSE LET hs == format_buckets(r.buckets)
            IN IF hs.err # "none" THEN Raise(hs.err, NoObjectList)
               ELSE Ok([total |-> Len(r.buckets) + r.sum_other_doc_count,
                        hits |-> hs.val,
                        suggest |-> suggest])

(* ------------------------------ ranking -------------------------------- *)

RECURSIVE RMax(_)
RMax(xs) ==
    IF Len(xs) = 1 THEN xs[1]
    ELSE LET m == RMax(Tail(xs))
         IN IF RLess(m, xs[1]) THEN xs[1] ELSE m

\* utils.normalize_on_max: each score over the maximum, zeros for no maximum
normalize_on_max(xs) ==
    IF Len(xs) = 0 THEN <<>>
    ELSE LET m == RMax(xs)
         IN IF m.n = 0 THEN [k \in 1..Len(xs) |-> RInt(0)]
            ELSE [k \in 1..Len(xs) |-> RDiv(xs[k], m)]

heuristic_score_clamped(ir_score, gp_score, lp_score, urlparams) ==
    LET lp == PyFloatOf(QueryGet(urlparams, "lp", PyInt(0)))
        gp == PyFloatOf(QueryGet(urlparams, "gp", PyInt(0)))
    IN IF lp.err # "none" THEN Raise(lp.err, RInt(0))
       ELSE IF gp.err # "none" THEN Raise(gp.err, RInt(0))
       ELSE LET raw_ir == RSub(RSub(RInt(1), gp.val), lp.val)
                ir_coeff == IF raw_ir.n < 0 THEN RInt(0) ELSE raw_ir
            IN Ok(RAdd(RAdd(RMul(gp_score, gp.val), RMul(lp_score, lp.val)),
                       RMul(ir_score, ir_coeff)))

\* heuristic_score: the weighted sum, the IR weight being what the two leave
heuristic_score(ir_score, gp_score, lp_score, urlparams) ==
    LET lp == PyFloatOf(QueryGet(urlparams, "lp", PyInt(0)))
        gp == PyFloatOf(QueryGet(urlparams, "gp", PyInt(0)))
    IN IF lp.err # "none" THEN Raise(lp.err, RInt(0))
       ELSE IF gp.err # "none" THEN Raise(gp.err, RInt(0))
       ELSE LET ir_coeff == RSub(RSub(RInt(1), gp.val), lp.val)
            IN Ok(RAdd(RAdd(RMul(gp_score, gp.val), RMul(lp_score, lp.val)),
                       RMul(ir_score, ir_coeff)))

\* sorted(hits, key=score, reverse=True) puts one more hit into a sorted list:
\* after every hit whose score is not lower
insert_by_score(sorted, h) ==
    LET p == Cardinality({k \in 1..Len(sorted) : RLeq(h.score, sorted[k].score)})
    IN SubSeq(sorted, 1, p) \o <<h>> \o SubSeq(sorted, p + 1, Len(sorted))

\* sorted(hits, key=lambda k: k['score'], reverse=True): stable, descending
RECURSIVE sorted_by_score(_)
sorted_by_score(hits) ==
    IF Len(hits) = 0 THEN <<>>
    ELSE insert_by_score(sorted_by_score(SubSeq(hits, 1, Len(hits) - 1)),
                         hits[Len(hits)])

DomainsOf(hits) == {hits[k].domain : k \in 1..Len(hits)}

\* local_page_pop: the scores PagePopHandler gives for the domains of the hits
local_page_pop(hits, handler) ==
    IF handler.down THEN Raise("PagePopError", <<>>)
    ELSE Ok([dom \in DomainsOf(hits) \cap DOMAIN handler.score |->
                handler.score[dom]])

get_score_calls_twice(hits, k) ==
    [j \in 1..(2 * k) |-> hits[(j + 1) \div 2].domain]

\* the calls PagePopScore.objects.get_score(onion=...) of the first k turns of
\* the loop of sort_hits
get_score_calls(hits, k) == [j \in 1..k |-> hits[j].domain]

\* the turns of the loop of sort_hits in which a lookup raises
FailingTurns(hits, scores, db) ==
    {k \in 1..Len(hits) : db.down \/ hits[k].domain \notin DOMAIN scores}

Min(S) == CHOOSE x \in S : \A y \in S : x <= y

\* TorResultsView.sort_hits: the hits it leaves in self.object_list and the
\* get_score calls it made, or the exception that ended it
sort_hits(hits, scores, db, urlparams) ==
    LET n == Len(hits)
        bad == FailingTurns(hits, scores, db)
    IN IF bad # {}
       THEN Raise(IF db.down THEN "PagePopError" ELSE "KeyError",
                  [hits |-> hits, lookups |-> get_score_calls(hits, Min(bad))])
       ELSE
         LET ir == normalize_on_max([k \in 1..n |-> hits[k].score])
             pg == normalize_on_max(
                       [k \in 1..n |-> RInt(db.score[hits[k].domain])])
             pl == normalize_on_max(
                       [k \in 1..n |-> RInt(scores[hits[k].domain])])
             hs == [k \in 1..n |-> heuristic_score(ir[k], pg[k], pl[k], urlparams)]
             scored == [k \in 1..n |-> [hits[k] EXCEPT !.score = hs[k].val]]
         IN IF \E k \in 1..n : hs[k].err # "none"
            THEN Raise("ValueError",
                       [hits |-> hits, lookups |-> get_score_calls(hits, n)])
            ELSE Ok([hits |-> sorted_by_score(scored),
                     lookups |-> get_score_calls(hits, n)])

(* --------------------------- the time window --------------------------- *)

filter_hits_by_time_strict(hits, pastdays) ==
    LET time_threshold == Now - pastdays * SecondsPerDay
    IN SelectSeq(hits, LAMBDA hit : hit.updated_on > time_threshold)

\* filter_hits_by_time: the hits crawled in the past pastdays days
filter_hits_by_time(hits, pastdays) ==
    LET time_threshold == Now - pastdays * SecondsPerDay
    IN SelectSeq(hits, LAMBDA hit : hit.updated_on >= time_threshold)

\* TorResultsView.filter_hits: the value it leaves in self.object_list
filter_hits(ol, url_params) ==
    LET pastdays == PyIntOf(QueryGet(url_params, "d", PyNone))
    IN IF pastdays.err # "none" THEN ol
       ELSE LET hits == filter_hits_by_time(ol.hits, pastdays.val)
            IN [ol EXCEPT !.hits = hits, !.total = Len(hits)]

(* ----------------------------- pagination ------------------------------ *)

NoContext ==
    [suggest |-> NoSuggest, page |-> -1, max_pages |-> -1, result_begin |-> -1,
     result_end |-> -1, total_search_results |-> -1, search_results |-> <<>>]

\* int(math.ceil(float(length) / per_page))
CeilDiv(length, per_page) == -((-length) \div per_page)

get_context_data_floor(ol, kw) ==
    IF kw.page.t # "int" THEN Raise("TypeError", NoContext)
    ELSE Ok([suggest |-> ol.suggest,
             page |-> kw.page.i + 1,
             max_pages |-> ol.total \div RESULTS_PER_PAGE,
             result_begin |-> RESULTS_PER_PAGE * kw.page.i,
             result_end |-> RESULTS_PER_PAGE * (kw.page.i + 1),
             total_search_results |-> ol.total,
             search_results |-> ol.hits])

\* TorResultsView.get_context_data: page + 1 raises TypeError on a str
get_context_data(ol, kw) ==
    IF kw.page.t # "int" THEN Raise("TypeError", NoContext)
    ELSE Ok([suggest |-> ol.suggest,
             page |-> kw.page.i + 1,
             max_pages |-> CeilDiv(ol.total, RESULTS_PER_PAGE),
             result_begin |-> RESULTS_PER_PAGE * kw.page.i,
             result_end |-> RESULTS_PER_PAGE * (kw.page.i + 1),
             total_search_results |-> ol.total,
             search_results |-> ol.hits])

always_enabled(G) == TRUE

\* the test of TorResultsView.get that enables PagePop
pagepop_enabled(G) == "gp" \in DOMAIN G \/ "lp" \in DOMAIN G

(* ------------------------------ handlers ------------------------------- *)

NoKwargs == [q |-> PyNone, page |-> PyNone]

NoCalls == [log |-> 0, click |-> 0, local |-> 0, global |-> <<>>]

\* an exception leaves the handler: the framework answers with a server error
Abort(e) ==
    /\ pc' = "error"
    /\ error' = e
    /\ response' = "server_error"

\* TorResultsView.get up to log_stats: the parameters are read into kwargs and
\* the query is written to the sink
LogStats ==
    /\ pc = "get"
    /\ kwargs' = [q |-> QueryGet(GET, "q", PyStr(<<>>)),
                  page |-> QueryGet(GET, "page", PyInt(0))]
    /\ calls' = [calls EXCEPT !.log = @ + 1]
    /\ IF sink_ok
       THEN pc' = "get_queryset" /\ UNCHANGED <<error, response>>
       ELSE Abort("SinkError")
    /\ UNCHANGED <<GET, raw, sink_ok, pagepop_db, pagepop_handler, object_list,
                   local_pp_scores, context>>

\* get_queryset: the index answers and format_hits sets self.object_list; then
\* the test that enables PagePop
GetQueryset ==
    /\ pc = "get_queryset"
    /\ LET r == format_hits(raw)
       IN IF r.err # "none"
          THEN Abort(r.err) /\ UNCHANGED object_list
          ELSE /\ object_list' = r.val
               /\ pc' = IF pagepop_enabled(GET) THEN "local_page_pop"
                        ELSE "filter_hits"
               /\ UNCHANGED <<error, response>>
    /\ UNCHANGED <<GET, kwargs, raw, sink_ok, pagepop_db, pagepop_handler,
                   local_pp_scores, calls, context>>

\* local_pp_scores = local_page_pop(self.object_list.hits)
LocalPagePop ==
    /\ pc = "local_page_pop"
    /\ calls' = [calls EXCEPT !.local = @ + 1]
    /\ LET r == local_page_pop(object_list.hits, pagepop_handler)
       IN IF r.err # "none"
          THEN Abort(r.err) /\ UNCHANGED local_pp_scores
          ELSE /\ local_pp_scores' = r.val
               /\ pc' = "sort_hits"
               /\ UNCHANGED <<error, response>>
    /\ UNCHANGED <<GET, kwargs, raw, sink_ok, pagepop_db, pagepop_handler,
                   object_list, context>>

\* self.sort_hits(local_pp_scores, request.GET)
SortHits ==
    /\ pc = "sort_hits"
    /\ LET r == sort_hits(object_list.hits, local_pp_scores, pagepop_db, GET)
       IN /\ calls' = [calls EXCEPT !.global = @ \o r.val.lookups]
          /\ IF r.err # "none"
             THEN Abort(r.err) /\ UNCHANGED object_list
             ELSE /\ object_list' = [object_list EXCEPT !.hits = r.val.hits]
                  /\ pc' = "filter_hits"
                  /\ UNCHANGED <<error, response>>
    /\ UNCHANGED <<GET, kwargs, raw, sink_ok, pagepop_db, pagepop_handler,
                   local_pp_scores, context>>

\* self.filter_hits()
FilterHits ==
    /\ pc = "filter_hits"
    /\ object_list' = filter_hits(object_list, GET)
    /\ pc' = "get_context_data"
    /\ UNCHANGED <<GET, kwargs, raw, sink_ok, pagepop_db, pagepop_handler,
                   local_pp_scores, calls, context, response, error>>

\* context = self.get_context_data(**kwargs); render_to_response(context)
GetContextData ==
    /\ pc = "get_context_data"
    /\ LET r == get_context_data(object_list, kwargs)
       IN IF r.err # "none"
          THEN Abort(r.err) /\ UNCHANGED context
          ELSE /\ context' = r.val
               /\ pc' = "done"
               /\ response' = "results_page"
               /\ UNCHANGED error
    /\ UNCHANGED <<GET, kwargs, raw, sink_ok, pagepop_db, pagepop_handler,
                   object_list, local_pp_scores, calls>>

\* onion_redirect: the click is written inside try/except, the redirect page
\* is returned whatever the write did
OnionRedirect ==
    /\ pc = "onion_redirect"
    /\ pc' = "done"
    /\ IF "redirect_url" \notin DOMAIN GET \/ "search_term" \notin DOMAIN GET
       THEN response' = "bad_request" /\ UNCHANGED calls
       ELSE IF GET["redirect_url"].empty \/ GET["search_term"] = <<>>
       THEN response' = "bad_request" /\ UNCHANGED calls
       ELSE /\ response' = "redirect_page"
            /\ calls' = IF ~GET["redirect_url"].extract_raises
                           /\ GET["redirect_url"].valid_onion
                        THEN [calls EXCEPT !.click = @ + 1]
                        ELSE calls
    /\ UNCHANGED <<GET, kwargs, raw, sink_ok, pagepop_db, pagepop_handler,
                   object_list, local_pp_scores, context, error>>

Next ==
    \/ LogStats
    \/ GetQueryset
    \/ LocalPagePop
    \/ SortHits
    \/ FilterHits
    \/ GetContextData
    \/ OnionRedirect

\* the methods of the view entered with an integer page in kwargs
NextPage ==
    \/ GetQueryset
    \/ FilterHits
    \/ GetContextData

(* ------------------------------- inputs -------------------------------- *)

None == [has |-> FALSE, v |-> <<>>]

Some(x) == [has |-> TRUE, v |-> x]

QueryText == <<"t">>

\* request.GET of a search with the given optional parameters
MkGET(p) ==
    [k \in {"q"} \cup {name \in {"page", "d", "gp", "lp"} : p[name].has} |->
        IF k = "q" THEN QueryText ELSE p[k].v]

GETs(Pages, Ds, Gps, Lps) ==
    {MkGET([page |-> a, d |-> b, gp |-> c, lp |-> e]) :
        a \in Pages, b \in Ds, c \in Gps, e \in Lps}

Iso(secs) == [fmt |-> "iso", secs |-> secs]

Garbled == [fmt |-> "garbled", secs |-> 0]

Missing == [fmt |-> "missing", secs |-> 0]

Old == Now - SecondsPerDay - 1

Edge == Now - SecondsPerDay

Fresh == Now

\* the bucket lists of at most MaxHits sites
Buckets(Sorts, Stamps) ==
    UNION {{[i \in 1..n |-> [domain |-> i, sort |-> f[i][1],
                             updated_on |-> f[i][2]]] :
              f \in [1..n -> Sorts \X Stamps]} : n \in 0..MaxHits}

Raws(Sorts, Stamps, Others, Options) ==
    {[has_aggregations |-> TRUE, options |-> op, buckets |-> bs,
      sum_other_doc_count |-> o] :
        bs \in Buckets(Sorts, Stamps), o \in Others, op \in Options}

NoAggregations ==
    [has_aggregations |-> FALSE, options |-> <<>>, buckets |-> <<>>,
     sum_other_doc_count |-> 0]

QuietDb(n) == [down |-> FALSE, score |-> [i \in 1..n |-> 0]]

AnyDb(n) ==
    {[down |-> TRUE, score |-> [i \in 1..n |-> 0]]}
    \cup {[down |-> FALSE, score |-> f] : f \in [1..n -> {0, 2}]}

QuietHandler(n) == [down |-> FALSE, score |-> [i \in 1..n |-> 0]]

AnyHandler(n) ==
    {[down |-> TRUE, score |-> [i \in 1..n |-> 0]]}
    \cup {[down |-> FALSE, score |-> [i \in 1..n |-> IF i = m THEN 3 ELSE 0]] :
            m \in 0..n}
    \cup {[down |-> FALSE, score |-> [i \in (1..n) \ {m} |-> 0]] : m \in 1..n}

Idle ==
    /\ kwargs = NoKwargs
    /\ object_list = NoObjectList
    /\ local_pp_scores = <<>>
    /\ calls = NoCalls
    /\ context = NoContext
    /\ response = "none"
    /\ error = "none"

\* a search request arrives
SearchInit(Gs, Rs, Sinks, rich) ==
    /\ pc = "get"
    /\ GET \in Gs
    /\ raw \in Rs
    /\ sink_ok \in Sinks
    /\ pagepop_db \in (IF rich THEN AnyDb(Len(raw.buckets))
                       ELSE {QuietDb(Len(raw.buckets))})
    /\ pagepop_handler \in (IF rich THEN AnyHandler(Len(raw.buckets))
                            ELSE {QuietHandler(Len(raw.buckets))})
    /\ Idle

OnionUrls ==
    {[empty |-> TRUE, valid_onion |-> FALSE, extract_raises |-> FALSE],
     [empty |-> FALSE, valid_onion |-> TRUE, extract_raises |-> FALSE],
     [empty |-> FALSE, valid_onion |-> FALSE, extract_raises |-> FALSE],
     [empty |-> FALSE, valid_onion |-> TRUE, extract_raises |-> TRUE]}

RedirectGETs ==
    {[k \in {} |-> <<>>]}
    \cup {[redirect_url |-> u, search_term |-> st] :
            u \in OnionUrls, st \in {<<>>, QueryText}}

\* a click on a result arrives
RedirectInit ==
    /\ pc = "onion_redirect"
    /\ GET \in RedirectGETs
    /\ raw = NoAggregations
    /\ sink_ok \in BOOLEAN
    /\ pagepop_db = QuietDb(0)
    /\ pagepop_handler = QuietHandler(0)
    /\ Idle

PageTexts == {None, Some(<<"2">>), Some(<<"x">>)}

DayTexts == {None, Some(<<"a">>), Some(<<"-", "1">>), Some(<<"0">>), Some(<<"1">>)}

GpTexts == {None, Some(<<"0">>), Some(<<"0", ".", "7">>)}

LpTexts == {None, Some(<<"0", ".", "6">>)}

\* requests with any page, malformed groups and a sink that may fail
Init ==
    \/ SearchInit(GETs(PageTexts, {None, Some(<<"a">>)}, {None, Some(<<"0">>)},
                       {None}),
                  Raws({<<1, 2>>}, {Iso(Fresh), Garbled, Missing}, {0, 997},
                       {<<>>, <<QueryText>>}) \cup {NoAggregations},
                  BOOLEAN, FALSE)
    \/ RedirectInit

Spec == Init /\ [][Next]_vars

\* requests with any weights, scores and popularity gateway
InitRank ==
    \/ SearchInit(GETs({None}, {None}, GpTexts, LpTexts),
                  Raws({<<1, 0>>, <<1, 1>>, <<2, 1>>}, {Iso(Fresh)}, {0}, {<<>>}),
                  {TRUE}, TRUE)
    \/ RedirectInit

SpecRank == InitRank /\ [][Next]_vars

\* requests with any time window and crawl times
InitFilter ==
    \/ SearchInit(GETs({None}, DayTexts, {None, Some(<<"0">>)}, {None}),
                  Raws({<<1, 1>>, <<1, 2>>}, {Iso(Old), Iso(Edge), Iso(Fresh)},
                       {0, 997}, {<<>>}),
                  {TRUE}, FALSE)
    \/ RedirectInit

SpecFilter == InitFilter /\ [][Next]_vars

\* the view's methods entered with an integer page and any total
InitPage ==
    /\ pc = "get_queryset"
    /\ GET \in GETs({None}, {None, Some(<<"1">>)}, {None}, {None})
    /\ raw \in Raws({<<1, 1>>}, {Iso(Old), Iso(Fresh)}, {0, 97, 98, 247, 997},
                    {<<>>})
    /\ sink_ok = TRUE
    /\ pagepop_db = QuietDb(Len(raw.buckets))
    /\ pagepop_handler = QuietHandler(Len(raw.buckets))
    /\ \E p \in 0..MaxPage :
          kwargs = [q |-> PyStr(QueryText), page |-> PyInt(p)]
    /\ object_list = NoObjectList
    /\ local_pp_scores = <<>>
    /\ calls = NoCalls
    /\ context = NoContext
    /\ response = "none"
    /\ error = "none"

SpecPage == InitPage /\ [][NextPage]_vars

(* ------------------------------- claims -------------------------------- *)

SearchRequest == "q" \in DOMAIN GET

\* sort_hits has returned: the ranking ran and the handler went on
Ranked ==
    /\ SearchRequest
    /\ calls.local > 0
    /\ pc \in {"filter_hits", "get_context_data", "done"}

\* the hits as format_hits left them
Aggregated == format_hits(raw).val.hits

IntMax(S) == CHOOSE x \in S : \A y \in S : y <= x

\* C1: a failure of the query/click logging sink never aborts the response:
\* once a write to the failing sink was attempted, the handler still is not in
\* an error state (for a search as for a click redirect).
C1_SinkFailureNeverAborts ==
    (~sink_ok /\ (calls.log > 0 \/ calls.click > 0)) => pc # "error"

WellFormedDomains ==
    {raw.buckets[k].domain : k \in {j \in 1..Len(raw.buckets) :
                                      raw.buckets[j].updated_on.fmt = "iso"}}

\* C2: with a well-formed top-level response, a group with an unparseable or
\* missing updated_on does not make format_hits fail: object_list is set, the
\* hits are exactly those of the well-formed groups.
C2_MalformedGroupSkipped ==
    (SearchRequest /\ raw.has_aggregations
        /\ pc \notin {"get", "get_queryset"} /\ error # "SinkError")
    => /\ object_list # NoObjectList
       /\ pc \in {"local_page_pop", "filter_hits"}
            => DomainsOf(object_list.hits) = WellFormedDomains

\* C3 as stated: during one query each Popularity Gateway read operation is
\* invoked at most once, whatever the number of hits.
C3_EachGatewayReadAtMostOnce ==
    calls.local <= 1 /\ Len(calls.global) <= 1

\* C3 as amended: the local-score computation is invoked at most once per
\* query; the global-score lookup is invoked once per hit, in hit order, and
\* never twice for the same site.
C3_OneLookupPerHit ==
    /\ calls.local <= 1
    /\ \A i, j \in 1..Len(calls.global) :
          calls.global[i] = calls.global[j] => i = j
    /\ Len(calls.global) <= Len(Aggregated)
    /\ Ranked => calls.global = [k \in 1..Len(Aggregated) |-> Aggregated[k].domain]

C3_Witness ==
    Ranked /\ calls.local = 1 /\ Len(calls.global) >= 2

GatewayFaulty ==
    \/ pagepop_db.down
    \/ pagepop_handler.down
    \/ \E k \in 1..Len(raw.buckets) : k \notin DOMAIN pagepop_handler.score

\* C4: a failing Popularity Gateway (a lookup that raises, or a local score
\* missing for a hit's site) never ends the request in an error state.
C4_GatewayFailureRecovered ==
    (SearchRequest /\ GatewayFaulty /\ calls.local > 0) => pc # "error"

NotANonNegativeInt(G) ==
    \/ "d" \notin DOMAIN G
    \/ PyIntOf(PyStr(G["d"])).err # "none"
    \/ PyIntOf(PyStr(G["d"])).val < 0

\* C5: when parameter d is absent or is no valid non-negative integer,
\* filter_hits leaves the result set unchanged.
C5_InvalidWindowLeavesResultSet ==
    [][(pc = "filter_hits" /\ NotANonNegativeInt(GET))
          => object_list' = object_list]_vars

Supplied(k) == k \in DOMAIN GET

AbsentOrZero(k) == ~Supplied(k) \/ PyFloatOf(PyStr(GET[k])).val.n = 0

NoGatewayCall == calls.local = 0 /\ calls.global = <<>>

\* C6 as stated: when both weights are absent or zero, no Popularity Gateway
\* operation is invoked.
C6_NoGatewayCallOnZeroWeights ==
    (SearchRequest /\ AbsentOrZero("gp") /\ AbsentOrZero("lp")) => NoGatewayCall

\* the original IR score of the site of a hit
IrOf(h) == Aggregated[h.domain].score

\* C6 as amended: when both weight parameters are absent, no Popularity
\* Gateway operation is invoked and the hits keep the aggregator's order; when
\* one is supplied, even as zero, the ranking runs with one local-score
\* computation, and with both weights zero the hits are ordered by IR score
\* descending.
C6_PopularitySkippedWhenAbsent ==
    SearchRequest =>
       /\ (~Supplied("gp") /\ ~Supplied("lp")) =>
             /\ NoGatewayCall
             /\ pc = "filter_hits" => object_list.hits = Aggregated
       /\ ((Supplied("gp") \/ Supplied("lp"))
              /\ pc \in {"filter_hits", "get_context_data", "done"})
             => calls.local = 1
       /\ (Ranked /\ pc = "filter_hits"
              /\ AbsentOrZero("gp") /\ AbsentOrZero("lp")) =>
             \A i, j \in 1..Len(object_list.hits) :
                i < j => RLeq(IrOf(object_list.hits[j]), IrOf(object_list.hits[i]))

C6_Witness ==
    /\ SearchRequest
    /\ ~Supplied("gp") /\ ~Supplied("lp")
    /\ pc = "done"
    /\ response = "results_page"
    /\ Len(object_list.hits) >= 2
    /\ NoGatewayCall

\* C7: a page parameter supplied in the request reaches the pagination stage
\* as an integer, and no request ends in a type error.
C7_PageReachesPaginationAsInt ==
    /\ (SearchRequest /\ Supplied("page") /\ pc = "get_context_data")
          => kwargs.page.t = "int"
    /\ error # "TypeError"

\* the greatest value of a signal over the hits, 1 when there is none above 0
Scale(S) == IF S = {} \/ IntMax(S) = 0 THEN 1 ELSE IntMax(S)

\* C8: after sort_hits every hit carries
\* global_weight*norm_global + local_weight*norm_local
\*   + (1 - global_weight - local_weight)*norm_ir,
\* the hits are a permutation of the input sorted descending by that score,
\* and hits of equal score keep their prior relative order.
C8_RankerPostcondition ==
    (Ranked /\ pc = "filter_hits") =>
       LET hits == object_list.hits
           n == Len(Aggregated)
           gw == PyFloatOf(QueryGet(GET, "gp", PyInt(0))).val
           lw == PyFloatOf(QueryGet(GET, "lp", PyInt(0))).val
           I == Scale({Aggregated[k].score.n : k \in 1..n})
           G == Scale({pagepop_db.score[k] : k \in 1..n})
           L == Scale({local_pp_scores[k] : k \in 1..n})
           Num(dom) ==
               gw.n * lw.d * pagepop_db.score[dom] * L * I
               + lw.n * gw.d * local_pp_scores[dom] * G * I
               + (gw.d * lw.d - gw.n * lw.d - lw.n * gw.d)
                    * Aggregated[dom].score.n * G * L
           Den == gw.d * lw.d * G * L * I
       IN /\ Len(hits) = n
          /\ DomainsOf(hits) = 1..n
          /\ \A k \in 1..n :
                /\ hits[k].score.n * Den = Num(hits[k].domain) * hits[k].score.d
                /\ hits[k].updated_on = Aggregated[hits[k].domain].updated_on
          /\ \A i, j \in 1..n :
                i < j => /\ RLeq(hits[j].score, hits[i].score)
                         /\ hits[i].score = hits[j].score
                               => hits[i].domain < hits[j].domain

C8_Witness ==
    /\ Ranked /\ pc = "filter_hits"
    /\ Supplied("gp") /\ Supplied("lp")
    /\ Len(object_list.hits) >= 3
    /\ object_list.hits[1].domain # 1
    /\ object_list.hits[1].score.n < 0
    /\ object_list.hits[2].score = object_list.hits[3].score

\* the k-th of a set of positions, in increasing order
Nth(S, k) == CHOOSE p \in S : Cardinality({m \in S : m <= p}) = k

\* C9: for a valid non-negative d, filter_hits leaves exactly the hits whose
\* updated_on >= now - d days, in their prior order, and total is their number.
C9_TimeWindowPostcondition ==
    [][(pc = "filter_hits" /\ ~NotANonNegativeInt(GET)) =>
          LET d == PyIntOf(PyStr(GET["d"])).val
              old == object_list.hits
              keep == {k \in 1..Len(old) :
                         old[k].updated_on >= Now - d * SecondsPerDay}
          IN /\ Len(object_list'.hits) = Cardinality(keep)
             /\ \A k \in 1..Cardinality(keep) :
                   object_list'.hits[k] = old[Nth(keep, k)]
             /\ object_list'.total = Cardinality(keep)
             /\ object_list'.suggest = object_list.suggest]_vars

C9_Witness ==
    /\ pc = "get_context_data"
    /\ Supplied("d") /\ GET["d"] = <<"1">>
    /\ \E i, j \in 1..Len(raw.buckets) :
          /\ i < j
          /\ raw.buckets[i].updated_on = Iso(Old)
          /\ raw.buckets[j].updated_on = Iso(Edge)
    /\ \E k \in 1..Len(object_list.hits) : object_list.hits[k].updated_on = Edge
    /\ \A k \in 1..Len(object_list.hits) : object_list.hits[k].updated_on # Old
    /\ object_list.total = Len(object_list.hits)
    /\ object_list.total < Len(raw.buckets)

\* C10: the response carries display_page = page + 1,
\* max_pages = ceil(total / 100) (0 for no result), result_begin = page * 100
\* and result_end = (page + 1) * 100, total being the total after the time
\* filter (groups + other count when no filter applied); no page is an error.
C10_Pagination ==
    /\ pc # "error"
    /\ pc = "done" =>
          LET page == kwargs.page.i
              total == context.total_search_results
          IN /\ response = "results_page"
             /\ context.page = page + 1
             /\ context.max_pages * RESULTS_PER_PAGE >= total
             /\ (context.max_pages - 1) * RESULTS_PER_PAGE < total
             /\ total = 0 => context.max_pages = 0
             /\ context.result_begin = page * RESULTS_PER_PAGE
             /\ context.result_end = (page + 1) * RESULTS_PER_PAGE
             /\ total = object_list.total
             /\ total = IF NotANonNegativeInt(GET)
                        THEN Len(raw.buckets) + raw.sum_other_doc_count
                        ELSE Len(object_list.hits)
             /\ context.search_results = object_list.hits

C10_Witness ==
    /\ pc = "done"
    /\ kwargs.page = PyInt(2)
    /\ context.total_search_results = 250
    /\ context.page = 3
    /\ context.max_pages = 3
    /\ context.result_begin = 200
    /\ context.result_end = 300

====
